---- MODULE Spec2Model ----
(***************************************************************************)
(* Model of src/input.h: the LineByLineReader (getline wrapper) and        *)
(* read_points_from_bed_file (BED parser that groups contiguous lines of   *)
(* the same region name and stores one derived point per interval).        *)
(*                                                                         *)
(* Text is modelled as sequences of one-character strings, so that         *)
(* trimming, splitting and integer parsing are computed, not assumed.      *)
(***************************************************************************)
EXTENDS Integers, Sequences, FiniteSets, TLC

(***************************************************************************)
(* Bounds of the model.                                                    *)
(***************************************************************************)
\* Number of lines a run may read from the stream.
MaxLines == 3
\* Number of read_next_line calls made on a reader used on its own.
MaxReads == 4
\* Width in bits of the signed position type returned by parse_int.
PosBits == 4
\* Width in bits of std::size_t (lines_read_, buffer sizes).
SizeBits == 5

MinPos == -(2 ^ (PosBits - 1))
MaxPos == (2 ^ (PosBits - 1)) - 1
PosRange == MinPos .. MaxPos
PosMod == 2 ^ PosBits
SizeMod == 2 ^ SizeBits

(***************************************************************************)
(* Characters and text helpers.                                            *)
(***************************************************************************)
TAB == "\t"
NL == "\n"
SP == " "
HASH == "#"
MINUS == "-"
Digits == <<"0", "1", "2", "3", "4", "5", "6", "7", "8", "9">>
DigitSet == {Digits[i] : i \in 1 .. 10}
DigitVal(c) == (CHOOSE i \in 1 .. 10 : Digits[i] = c) - 1

Last(s) == s[Len(s)]

RECURSIVE NatDigits(_)
NatDigits(n) ==
    IF n < 10 THEN <<Digits[n + 1]>>
    ELSE NatDigits(n \div 10) \o <<Digits[(n % 10) + 1]>>

\* Decimal text of an integer, as it is written in a BED file.
Numeral(n) == IF n < 0 THEN <<MINUS>> \o NatDigits(-n) ELSE NatDigits(n)

RECURSIVE JoinTab(_)
JoinTab(fs) ==
    IF Len(fs) = 0 THEN <<>>
    ELSE IF Len(fs) = 1 THEN fs[1]
    ELSE fs[1] \o <<TAB>> \o JoinTab(Tail(fs))

(***************************************************************************)
(* String utilities of utils.h (not part of src/): contracts of spec.md §6. *)
(***************************************************************************)
\* Whitespace characters removed by trim_ws.  Whether the tab is one of them
\* is fixed by utils.h, which is not available: tab_ws is that choice.
Whitespace(tab_ws) == {SP, NL} \cup (IF tab_ws THEN {TAB} ELSE {})

RECURSIVE trim_left(_, _)
trim_left(ws, s) ==
    IF Len(s) > 0 /\ s[1] \in ws THEN trim_left(ws, Tail(s)) ELSE s

RECURSIVE trim_right(_, _)
trim_right(ws, s) ==
    IF Len(s) > 0 /\ s[Len(s)] \in ws
    THEN trim_right(ws, SubSeq(s, 1, Len(s) - 1))
    ELSE s

trim_ws(tab_ws, s) == trim_right(Whitespace(tab_ws), trim_left(Whitespace(tab_ws), s))

starts_with(c, s) == Len(s) >= 1 /\ s[1] = c

\* Fields of a non-empty text: k separators give k + 1 fields.
RECURSIVE SplitFields(_, _, _)
SplitFields(sep, s, cur) ==
    IF Len(s) = 0 THEN <<cur>>
    ELSE IF s[1] = sep THEN <<cur>> \o SplitFields(sep, Tail(s), <<>>)
    ELSE SplitFields(sep, Tail(s), Append(cur, s[1]))

\* The possible results of split: for the empty text utils.h may give no field
\* or one empty field.
split(sep, s) ==
    IF Len(s) = 0 THEN {<<>>, << <<>> >>} ELSE {SplitFields(sep, s, <<>>)}

RECURSIVE DigitsValue(_)
DigitsValue(ds) ==
    IF Len(ds) = 0 THEN 0
    ELSE 10 * DigitsValue(SubSeq(ds, 1, Len(ds) - 1)) + DigitVal(ds[Len(ds)])

\* parse_int: decimal, signed, the whole text, within the position type.
parse_int(str, what) ==
    LET neg == Len(str) >= 1 /\ str[1] = MINUS
        body == IF neg THEN Tail(str) ELSE str
        wellformed == Len(body) >= 1 /\ \A i \in 1 .. Len(body) : body[i] \in DigitSet
        v == IF neg THEN -DigitsValue(body) ELSE DigitsValue(body)
    IN  IF wellformed /\ v \in PosRange
        THEN [ok |-> TRUE, value |-> v, what |-> what]
        ELSE [ok |-> FALSE, value |-> 0, what |-> what]

\* SortedVec<Point>::from_unsorted (types.h): the points in ascending order.
RECURSIVE InsertSorted(_, _)
InsertSorted(x, s) ==
    IF Len(s) = 0 THEN <<x>>
    ELSE IF x <= s[1] THEN <<x>> \o s
    ELSE <<s[1]>> \o InsertSorted(x, Tail(s))

RECURSIVE from_unsorted(_)
from_unsorted(pts) ==
    IF Len(pts) = 0 THEN <<>>
    ELSE InsertSorted(pts[1], from_unsorted(Tail(pts)))

(***************************************************************************)
(* Exceptions.  An exception value records its dynamic C++ type, the parts *)
(* of its what() text, and for std::system_error its error code.           *)
(*   text       : the message thrown                                       *)
(*   label      : the field label parse_int puts in its message            *)
(*   errno_text : <<c>> when the message is the system text of errno c     *)
(*   line       : <<n>> when the message starts "Parsing BED file at line n"*)
(*   code       : <<c>> for a std::system_error holding code c             *)
(***************************************************************************)
NoException ==
    [type |-> "none", text |-> "", label |-> "", errno_text |-> <<>>,
     line |-> <<>>, code |-> <<>>]

runtime_error(text, label) ==
    [type |-> "runtime_error", text |-> text, label |-> label,
     errno_text |-> <<>>, line |-> <<>>, code |-> <<>>]

system_error(c) ==
    [type |-> "system_error", text |-> "system_category", label |-> "",
     errno_text |-> <<c>>, line |-> <<>>, code |-> <<c>>]

MsgNoLineData == "LineByLineReader: no line data available"
MsgFields == "Line must contain at least 3 fields: (region, start, end)"
MsgBounds == "interval bounds are invalid"
MsgEmptyName == "empty string as a region name"
MsgParseInt == "parse_int: not an integer"
LabelStart == "interval_position_start"
LabelEnd == "interval_position_end"

\* Error codes a failing getline may leave in errno (EIO, EBADF).
ErrnoCodes == {5, 9}

(***************************************************************************)
(* State.                                                                  *)
(***************************************************************************)
VARIABLES
    tab_is_ws,                      \* utils.h: does trim_ws strip tabs
    input_lines,                    \* input_: the lines delivered so far
    input_feof,                     \* input_: the stream's end-of-file flag
    current_line_data_,             \* <<>> is nullptr, <<l>> a buffer holding l
    current_line_data_buffer_size_,
    current_line_size_,
    lines_read_,
    regions,
    current_region_points,
    current_region_name,
    pc,                             \* "loop", "returned" or "failed"
    thrown,                         \* the exception raised inside the try block
    error,                          \* the exception that reaches the caller
    result,                         \* <<>> or <<v>>, v the returned vector
    last_read,                      \* the most recent read_next_line call
    true_reads,                     \* number of read_next_line calls that returned true
    last_call                       \* the most recent call of an accessor

reader_vars ==
    <<input_lines, input_feof, current_line_data_, current_line_data_buffer_size_,
      current_line_size_, lines_read_, last_read, true_reads>>
parser_vars == <<regions, current_region_points, current_region_name>>
outcome_vars == <<pc, thrown, error, result>>
vars == <<tab_is_ws, reader_vars, parser_vars, outcome_vars, last_call>>

(***************************************************************************)
(* LineByLineReader.                                                       *)
(***************************************************************************)
Max(a, b) == IF a >= b THEN a ELSE b

\* A buffer sized anew for every line.
GetlineCapacity_exact(held, n, need) == need

\* Capacity getline leaves in *n: a null buffer is allocated for what is
\* needed, a held buffer only ever grows.
GetlineCapacity(held, n, need) == IF held = <<>> THEN need ELSE Max(n, need)

\* No accessor was called yet.
NoCall == [op |-> "none", ok |-> TRUE, view |-> <<>>, number |-> 0, flag |-> FALSE]

\* current_line(): the view, or the exception thrown when no buffer is held.
current_line ==
    IF current_line_data_ # <<>>
    THEN [ok |-> TRUE, view |-> SubSeq(current_line_data_[1], 1, current_line_size_)]
    ELSE [ok |-> FALSE, view |-> <<>>]

\* current_line_number() without the decrement.
current_line_number_nodec(n) == n % SizeMod

\* current_line_number() of a reader whose count is n: unsigned n - 1.
current_line_number_after(n) == (n - 1) % SizeMod
current_line_number == current_line_number_after(lines_read_)

eof == input_feof

\* What one getline call does: r is the length of the line it stores or -1,
\* feof the stream's end-of-file flag after it, errno the error code it leaves.
GotLine(line) == [r |-> Len(line), line |-> line, feof |-> FALSE, errno |-> 0]
GotLastLine(line) == [r |-> Len(line), line |-> line, feof |-> TRUE, errno |-> 0]
GotEof == [r |-> -1, line |-> <<>>, feof |-> TRUE, errno |-> 0]
GotError(c) == [r |-> -1, line |-> <<>>, feof |-> input_feof, errno |-> c]

\* A read that reports every failure of getline as false.
ReadOutcome_swallow(r, feof) == IF r >= 0 THEN "true" ELSE "false"

\* Lines 93-103: what read_next_line does with getline's result r and the
\* stream's end-of-file flag.
ReadOutcome(r, feof) ==
    IF r >= 0 THEN "true" ELSE IF feof THEN "false" ELSE "throw"

\* A count incremented on every call.
LinesReadAfter_always(out, n) == (n + 1) % SizeMod

\* Line 95: lines_read_ after a read with outcome out.
LinesReadAfter(out, n) == IF out = "true" THEN (n + 1) % SizeMod ELSE n

\* read_next_line() (lines 86-105) when getline behaves as g.
read_next_line(g) ==
    LET out == ReadOutcome(g.r, g.feof)
        need == IF g.r >= 0 THEN g.r + 1 ELSE 1
        \* the buffer getline hands back (line 91)
        buf == IF g.r >= 0 THEN <<g.line>>
               ELSE IF current_line_data_ = <<>> THEN << <<>> >>
               ELSE current_line_data_
    IN  /\ input_lines' = IF g.r >= 0 THEN Append(input_lines, g.line) ELSE input_lines
        /\ input_feof' = g.feof
        /\ current_line_data_buffer_size_' =
               GetlineCapacity(current_line_data_, current_line_data_buffer_size_,
                               need) % SizeMod
        /\ current_line_data_' = IF out = "false" THEN <<>> ELSE buf
        /\ current_line_size_' = IF out = "true" THEN g.r % SizeMod ELSE current_line_size_
        /\ lines_read_' = LinesReadAfter(out, lines_read_)
        /\ last_read' =
               [n |-> last_read.n + 1, ret |-> out, prev |-> last_read.ret,
                r |-> g.r, feof |-> g.feof, errno |-> g.errno,
                code |-> IF out = "throw" THEN <<g.errno>> ELSE <<>>]
        /\ true_reads' = IF out = "true" THEN true_reads + 1 ELSE true_reads

\* read_next_line() when getline returns the length of `line`.
read_next_line_true(line) ==
    /\ ~input_feof
    /\ read_next_line(GotLine(line))

\* read_next_line() when getline returns -1 and the stream is at end-of-file.
read_next_line_false == read_next_line(GotEof)

\* read_next_line() when getline returns -1 without end-of-file, errno c: the
\* buffer getline leaves is kept and std::system_error is thrown.
read_next_line_throw(c) ==
    /\ ~input_feof
    /\ read_next_line(GotError(c))

(***************************************************************************)
(* Input: the lines a BED stream may deliver, each as getline returns it   *)
(* (terminator included).                                                  *)
(***************************************************************************)
NameA == <<"a">>
NameB == <<"b">>
NoName == <<>>
BadToken == <<"x">>

DataLine(fields) == JoinTab(fields) \o <<NL>>

\* Intervals start < end: an odd width, the widest width that is
\* representable, and the narrowest width that is not (a negative start).
GoodIntervals == {<<0, 5>>, <<0, MaxPos>>, <<MinPos, 0>>}

CommentLines == {<<HASH, TAB, "x", NL>>, <<SP, HASH, NL>>}
GoodLines ==
    {DataLine(<<n, Numeral(i[1]), Numeral(i[2])>>) :
        n \in {NameA, NameB}, i \in GoodIntervals}
\* Leading blank, a fourth column and a trailing blank.
PaddedLines ==
    {<<SP>> \o JoinTab(<<NameB, Numeral(0), Numeral(MaxPos), BadToken>>) \o <<SP, NL>>}
EmptyNameLines ==
    {DataLine(<<NoName, Numeral(0), Numeral(5)>>),
     DataLine(<<NoName, Numeral(5), Numeral(0)>>)}
BadLines ==
    {<<NL>>, <<SP, NL>>,
     DataLine(<<NameA, Numeral(0)>>),
     DataLine(<<NameA, BadToken, Numeral(5)>>),
     DataLine(<<NameA, Numeral(0), BadToken>>),
     DataLine(<<NameA, BadToken, BadToken>>),
     DataLine(<<NameA, Numeral(5), Numeral(0)>>),
     DataLine(<<NameA, Numeral(5), Numeral(5)>>)}
Lines == CommentLines \cup GoodLines \cup PaddedLines \cup EmptyNameLines \cup BadLines

(***************************************************************************)
(* read_points_from_bed_file.                                              *)
(***************************************************************************)
\* Value of the signed position type congruent to x.
Wrap(x) == ((x - MinPos) % PosMod) + MinPos

\* C++ integer division by two: truncation toward zero.
HalfTrunc(d) == IF d >= 0 THEN d \div 2 ELSE -((-d) \div 2)

\* The values (end - start) / 2 may take.  When end - start is not
\* representable the subtraction is undefined behaviour: a build may wrap and
\* divide, wrap and shift arithmetically, or (start < end being known) shift
\* the unsigned difference.
PointOutcomes(start, end) ==
    IF end - start \in PosRange
    THEN {HalfTrunc(end - start)}
    ELSE {HalfTrunc(Wrap(end - start)), Wrap(end - start) \div 2, (end - start) \div 2}

\* A test that takes every data line for the start of a region.
NewRegion_always(region_name, cur_name) == TRUE

\* Line 137: the line starts a new region.
NewRegion(region_name, cur_name) == region_name # cur_name

\* The checks with the end position parsed before the start position.
Validate_end_first(fields, cur_name) ==
    IF ~(Len(fields) >= 3) THEN runtime_error(MsgFields, "")
    ELSE LET s == parse_int(fields[2], LabelStart)
             e == parse_int(fields[3], LabelEnd)
         IN  IF ~e.ok THEN runtime_error(MsgParseInt, e.what)
             ELSE IF ~s.ok THEN runtime_error(MsgParseInt, s.what)
             ELSE IF ~(s.value < e.value) THEN runtime_error(MsgBounds, "")
             ELSE IF NewRegion(fields[1], cur_name) /\ fields[1] = <<>>
                  THEN runtime_error(MsgEmptyName, "")
             ELSE NoException

\* Lines 126-140: the exception thrown while checking the fields of a data
\* line against the open region name, NoException when none is.
Validate(fields, cur_name) ==
    IF ~(Len(fields) >= 3) THEN runtime_error(MsgFields, "")
    ELSE LET s == parse_int(fields[2], LabelStart)
             e == parse_int(fields[3], LabelEnd)
         IN  IF ~s.ok THEN runtime_error(MsgParseInt, s.what)
             ELSE IF ~e.ok THEN runtime_error(MsgParseInt, e.what)
             ELSE IF ~(s.value < e.value) THEN runtime_error(MsgBounds, "")
             ELSE IF NewRegion(fields[1], cur_name) /\ fields[1] = <<>>
                  THEN runtime_error(MsgEmptyName, "")
             ELSE NoException

\* Seal without the sort: the working sequence stored as it is.
Seal_unsorted(name, pts) == [name |-> name, points |-> pts]

\* Lines 143-144: the entry stored when a region ends.
Seal(name, pts) == [name |-> name, points |-> from_unsorted(pts)]

\* Line 153: the handler catches std::runtime_error and the classes derived
\* from it, of which std::system_error is one.
Catches(e) == e.type \in {"runtime_error", "system_error"}

\* Lines 155-156: the exception built by the handler when the reader's count
\* is n: a plain std::runtime_error whose text is the line number and e.what().
Wrapped(e, n) ==
    [type |-> "runtime_error", text |-> e.text, label |-> e.label,
     errno_text |-> e.errno_text,
     line |-> <<(current_line_number_after(n) + 1) % SizeMod>>, code |-> <<>>]

\* A handler that hands back the entries sealed so far.
Raise_partial(e, n) ==
    /\ pc' = "failed"
    /\ thrown' = e
    /\ error' = IF Catches(e) THEN Wrapped(e, n) ELSE e
    /\ result' = <<regions>>

\* An exception e leaves the try block: no vector is returned.
Raise(e, n) ==
    /\ pc' = "failed"
    /\ thrown' = e
    /\ error' = IF Catches(e) THEN Wrapped(e, n) ELSE e
    /\ result' = <<>>

\* The comment test applied to the untrimmed line.
IsComment_untrimmed(line) == starts_with(HASH, line)

\* A comment test that also skips blank lines.
IsComment_or_blank(line) ==
    \/ Len(trim_ws(tab_is_ws, line)) = 0
    \/ starts_with(HASH, trim_ws(tab_is_ws, line))

IsComment(line) == starts_with(HASH, trim_ws(tab_is_ws, line))
FieldsOf(line) == split(TAB, trim_ws(tab_is_ws, line))

Init ==
    /\ tab_is_ws \in BOOLEAN
    /\ input_lines = <<>>
    /\ input_feof = FALSE
    /\ current_line_data_ = <<>>
    /\ current_line_data_buffer_size_ = 0
    /\ current_line_size_ = 0
    /\ lines_read_ = 0
    /\ regions = <<>>
    /\ current_region_points = <<>>
    /\ current_region_name = <<>>
    /\ pc = "loop"
    /\ thrown = NoException
    /\ error = NoException
    /\ result = <<>>
    /\ last_read =
           [n |-> 0, ret |-> "none", prev |-> "none", r |-> 0, feof |-> FALSE,
            errno |-> 0, code |-> <<>>]
    /\ true_reads = 0
    /\ last_call = NoCall

\* One iteration on a comment or header line (lines 121-124).
ReadComment(line) ==
    /\ pc = "loop"
    /\ lines_read_ < MaxLines
    /\ read_next_line_true(line)
    /\ IsComment(line)
    /\ UNCHANGED <<tab_is_ws, parser_vars, outcome_vars, last_call>>

\* One iteration on a data line that fails a check (lines 126-140, 153-157).
ReadRejected(line) ==
    /\ pc = "loop"
    /\ lines_read_ < MaxLines
    /\ read_next_line_true(line)
    /\ ~IsComment(line)
    /\ \E fields \in FieldsOf(line) :
          /\ Validate(fields, current_region_name) # NoException
          /\ Raise(Validate(fields, current_region_name), lines_read_')
    /\ UNCHANGED <<tab_is_ws, parser_vars, last_call>>

\* One iteration on a data line that passes the checks (lines 126-149).
ReadData(line) ==
    /\ pc = "loop"
    /\ lines_read_ < MaxLines
    /\ read_next_line_true(line)
    /\ ~IsComment(line)
    /\ \E fields \in FieldsOf(line) :
          /\ Validate(fields, current_region_name) = NoException
          /\ LET region_name == fields[1]
                 start == parse_int(fields[2], LabelStart).value
                 end == parse_int(fields[3], LabelEnd).value
                 new_region == NewRegion(region_name, current_region_name)
             IN  /\ regions' =
                        IF new_region /\ current_region_name # <<>>
                        THEN Append(regions, Seal(current_region_name, current_region_points))
                        ELSE regions
                 /\ current_region_name' =
                        IF new_region THEN region_name ELSE current_region_name
                 /\ \E p \in PointOutcomes(start, end) :
                        current_region_points' =
                            Append(IF new_region THEN <<>> ELSE current_region_points, p)
    /\ UNCHANGED <<tab_is_ws, outcome_vars, last_call>>

\* The read that finds the stream exhausted: the loop ends and line 152
\* returns the vector.
ReadEof ==
    /\ pc = "loop"
    /\ read_next_line_false
    /\ pc' = "returned"
    /\ result' = <<regions>>
    /\ UNCHANGED <<tab_is_ws, parser_vars, thrown, error, last_call>>

\* The read that fails: std::system_error leaves read_next_line inside the
\* try block (lines 102, 153-157).
ReadIoError(c) ==
    /\ pc = "loop"
    /\ read_next_line_throw(c)
    /\ Raise(system_error(c), lines_read_')
    /\ UNCHANGED <<tab_is_ws, parser_vars, last_call>>

Next ==
    \/ \E line \in Lines : ReadComment(line)
    \/ \E line \in Lines : ReadRejected(line)
    \/ \E line \in Lines : ReadData(line)
    \/ ReadEof
    \/ \E c \in ErrnoCodes : ReadIoError(c)

Spec == Init /\ [][Next]_vars

(***************************************************************************)
(* A LineByLineReader used on its own: its methods called in any order.    *)
(***************************************************************************)
\* Lines of several lengths, and a last line without terminator.
ReaderLines == {<<NL>>} \cup CommentLines \cup PaddedLines
UnterminatedLines == {JoinTab(<<NameA, Numeral(0), Numeral(5)>>)}

\* last_call holds the accessor call made since the last read, if any.
ReaderRead(g) ==
    /\ last_read.n < MaxReads
    /\ read_next_line(g)
    /\ UNCHANGED <<tab_is_ws, parser_vars, outcome_vars>>

\* A read that gets a terminated line.
ReaderReadLine(line) ==
    /\ ~input_feof
    /\ ReaderRead(GotLine(line))
    /\ last_call' = NoCall

\* A read that gets the last line of a stream that ends without terminator.
ReaderReadLastLine(line) ==
    /\ ~input_feof
    /\ ReaderRead(GotLastLine(line))
    /\ last_call' = NoCall

\* A read that finds the stream exhausted.
ReaderReadEof ==
    /\ ReaderRead(GotEof)
    /\ last_call' = NoCall

\* A read on which getline fails with errno c.
ReaderReadError(c) ==
    /\ ReaderRead(GotError(c))
    /\ last_call' = NoCall

\* A call of current_line() (lines 72-78).
CallCurrentLine ==
    /\ last_call' =
           [op |-> "current_line", ok |-> current_line.ok, view |-> current_line.view,
            number |-> 0, flag |-> FALSE]
    /\ UNCHANGED <<tab_is_ws, reader_vars, parser_vars, outcome_vars>>

\* A call of current_line_number() (line 81): it has no failing path.
CallCurrentLineNumber ==
    /\ last_call' =
           [op |-> "current_line_number", ok |-> TRUE, view |-> <<>>,
            number |-> current_line_number, flag |-> FALSE]
    /\ UNCHANGED <<tab_is_ws, reader_vars, parser_vars, outcome_vars>>

\* A call of eof() (line 83).
CallEof ==
    /\ last_call' =
           [op |-> "eof", ok |-> TRUE, view |-> <<>>, number |-> 0, flag |-> eof]
    /\ UNCHANGED <<tab_is_ws, reader_vars, parser_vars, outcome_vars>>

NextReader ==
    \/ \E line \in ReaderLines : ReaderReadLine(line)
    \/ \E line \in UnterminatedLines : ReaderReadLastLine(line)
    \/ ReaderReadEof
    \/ \E c \in ErrnoCodes : ReaderReadError(c)
    \/ CallCurrentLine
    \/ CallCurrentLineNumber
    \/ CallEof

SpecReader == Init /\ [][NextReader]_vars

(***************************************************************************)
(* Vocabulary of the properties: what the input says, independently of the *)
(* aggregator's variables.                                                 *)
(***************************************************************************)
IsSorted(s) == \A i \in 1 .. Len(s) - 1 : s[i] <= s[i + 1]

\* The fields of a line whose trimmed text is not empty.
TheFields(line) == SplitFields(TAB, trim_ws(tab_is_ws, line), <<>>)

\* The line passes the field-count, integer and start < end checks.
PassesChecks(line) ==
    /\ ~IsComment(line)
    /\ Len(trim_ws(tab_is_ws, line)) > 0
    /\ Len(TheFields(line)) >= 3
    /\ parse_int(TheFields(line)[2], LabelStart).ok
    /\ parse_int(TheFields(line)[3], LabelEnd).ok
    /\ parse_int(TheFields(line)[2], LabelStart).value
           < parse_int(TheFields(line)[3], LabelEnd).value

ValidDataLine(line) == PassesChecks(line) /\ TheFields(line)[1] # <<>>
EmptyNameLine(line) == PassesChecks(line) /\ TheFields(line)[1] = <<>>
ValidInput(lines) ==
    \A i \in 1 .. Len(lines) : IsComment(lines[i]) \/ ValidDataLine(lines[i])

LineName(line) == TheFields(line)[1]
LineWidth(line) ==
    parse_int(TheFields(line)[3], LabelEnd).value
        - parse_int(TheFields(line)[2], LabelStart).value
\* Half the width of the interval, rounded toward zero, over the integers.
LinePoint(line) == HalfTrunc(LineWidth(line))

\* Maximal runs of same-named data lines, in file order, points in file order.
RECURSIVE RunsOf(_)
RunsOf(lines) ==
    IF Len(lines) = 0 THEN <<>>
    ELSE IF IsComment(lines[1]) THEN RunsOf(Tail(lines))
    ELSE LET rest == RunsOf(Tail(lines))
             n == LineName(lines[1])
             p == LinePoint(lines[1])
         IN  IF Len(rest) > 0 /\ rest[1].name = n
             THEN <<[name |-> n, points |-> <<p>> \o rest[1].points]>> \o Tail(rest)
             ELSE <<[name |-> n, points |-> <<p>>]>> \o rest

\* The reference result: each run with its points in ascending order.
Reference(lines) ==
    [i \in 1 .. Len(RunsOf(lines)) |->
        [name |-> RunsOf(lines)[i].name,
         points |-> from_unsorted(RunsOf(lines)[i].points)]]

(***************************************************************************)
(* Properties.                                                             *)
(***************************************************************************)

\* C1: when the reader signals clean end-of-stream while a region accumulator
\* is open, the accumulator is sealed and appended, so the returned sequence
\* ends with the entry of the last run.
C1_LastRunSealedAtEof ==
    (pc = "returned" /\ current_region_name # <<>> /\ current_region_points # <<>>)
        => /\ Len(result[1]) > 0
           /\ Last(result[1]) = Seal(current_region_name, current_region_points)

\* C2: for an input of comment lines and valid data lines the returned
\* sequence is the reference result: one entry per maximal run of same-named
\* data lines, in file order, holding the run's name and its sorted points.
C2_ReturnsReference ==
    (pc = "returned" /\ ValidInput(input_lines))
        => result = <<Reference(input_lines)>>

\* C3: in every state, the points of every entry appended to the result, and
\* of every entry of the returned sequence, are in non-decreasing order.
C3_EntriesSorted ==
    /\ \A i \in 1 .. Len(regions) : IsSorted(regions[i].points)
    /\ result # <<>> =>
           \A i \in 1 .. Len(result[1]) : IsSorted(result[1][i].points)

\* C3 witness: a returned entry whose two lines came in descending order of
\* their points.
C3_Witness ==
    /\ pc = "returned"
    /\ Len(input_lines) = 3
    /\ ValidInput(input_lines)
    /\ ~IsComment(input_lines[1]) /\ ~IsComment(input_lines[2])
    /\ LineName(input_lines[1]) = LineName(input_lines[2])
    /\ LinePoint(input_lines[1]) > LinePoint(input_lines[2])
    /\ Len(result[1]) = 1
    /\ result[1][1].points = <<LinePoint(input_lines[2]), LinePoint(input_lines[1])>>

\* C4: two runs of the same name separated by a run of another name give two
\* separate entries of that name, each with the points of its own run,
\* wherever the second run stands, the last run included.
C4_SeparateEntries ==
    (pc = "returned" /\ ValidInput(input_lines))
        => \A i, j \in 1 .. Len(RunsOf(input_lines)) :
               (i < j /\ RunsOf(input_lines)[i].name = RunsOf(input_lines)[j].name)
                   => /\ Len(result[1]) >= j
                      /\ result[1][i].name = RunsOf(input_lines)[i].name
                      /\ result[1][j].name = RunsOf(input_lines)[j].name
                      /\ Len(result[1][i].points) = Len(RunsOf(input_lines)[i].points)
                      /\ Len(result[1][j].points) = Len(RunsOf(input_lines)[j].points)

\* C5: when the N-th physical line of the file is rejected, the error that
\* reaches the caller carries the line number N, which is the reader's
\* 0-based current_line_number() plus one.
C5_LineNumberOfRejectedLine ==
    (pc = "failed" /\ thrown.type = "runtime_error")
        => /\ error.line = <<Len(input_lines)>>
           /\ error.line = <<(current_line_number + 1) % SizeMod>>

\* C5 witness: a line rejected as the third physical line, after a comment
\* line and an accepted data line.
C5_Witness ==
    /\ pc = "failed"
    /\ thrown.type = "runtime_error"
    /\ Len(input_lines) = 3
    /\ IsComment(input_lines[1])
    /\ ValidDataLine(input_lines[2])
    /\ error.line = <<3>>

\* C6: a line that passes the field-count, integer and start < end checks
\* and has an empty region name is rejected with the empty-name error in
\* every aggregator state; the parse never goes on after such a line.
C6_EmptyNameRejected ==
    (input_lines # <<>> /\ EmptyNameLine(Last(input_lines)))
        => (pc = "failed" /\ thrown.text = MsgEmptyName)

\* C7: an I/O error of read_next_line reaches the caller unchanged: still a
\* std::system_error, with its error code, and without a line annotation.
C7_IoErrorUnchanged ==
    thrown.type = "system_error" => error = thrown

\* C8: the error re-wrapped with the line number has the kind of the original
\* failure.
C8_WrapKeepsKind ==
    (pc = "failed" /\ error.line # <<>>) => error.type = thrown.type

\* C9: a failing call returns no region entries, whatever was sealed before
\* the failing line, and a call that returns a sequence raised no error.
C9_AllOrNothing ==
    /\ pc = "failed" => (result = <<>> /\ error # NoException)
    /\ pc = "returned" =>
           (result = <<regions>> /\ thrown = NoException /\ error = NoException)
    /\ result # <<>> => pc = "returned"

\* C9 witness: a call that fails after an entry was sealed.
C9_Witness ==
    /\ pc = "failed"
    /\ Len(regions) >= 1
    /\ result = <<>>

\* C10: the point appended for an accepted line is half the width end - start
\* rounded toward zero; it depends on the width alone and not on later columns.
C10_PointIsHalfWidth ==
    (pc = "loop" /\ input_lines # <<>> /\ PassesChecks(Last(input_lines)))
        => /\ current_region_points # <<>>
           /\ Last(current_region_points) = LinePoint(Last(input_lines))

\* C11: in every state of a reader, current_line() returns a view exactly
\* when the most recent read_next_line returned true; before the first read,
\* after a read that returned false and after a read that threw, it fails.
C11_ViewIffLastReadTrue ==
    current_line.ok <=> (last_read.ret = "true")

\* C12: read_next_line returns false exactly when getline yields no line and
\* the end-of-file flag is set; with no line and no end-of-file flag it throws
\* std::system_error with the error code; after a false every later read on
\* the exhausted stream returns false.
C12_FalseOnlyAtEof ==
    /\ last_read.ret = "false" <=> (last_read.n > 0 /\ last_read.r < 0 /\ last_read.feof)
    /\ (last_read.n > 0 /\ last_read.r < 0 /\ ~last_read.feof)
           => (last_read.ret = "throw" /\ last_read.code = <<last_read.errno>>)
    /\ last_read.prev = "false" => last_read.ret = "false"

\* C12 witness: a read that returned false after a read that returned false,
\* getline having failed with an error code on the exhausted stream.
C12_Witness ==
    /\ last_read.prev = "false"
    /\ last_read.ret = "false"
    /\ last_read.errno # 0

\* C13: current_line_number() before any read returned true is an error and
\* gives no number; after k >= 1 reads that returned true it gives k - 1.
C13_LineNumberGuarded ==
    last_call.op = "current_line_number"
        => /\ true_reads = 0 => ~last_call.ok
           /\ true_reads >= 1 => (last_call.ok /\ last_call.number = true_reads - 1)

\* C17: over any sequence of reads the buffer is never released, its
\* capacity never decreases, and the recorded size describes the buffer held
\* (no size without a buffer).
C17_BufferNeverReleased ==
    [][/\ current_line_data_ # <<>> => current_line_data_' # <<>>
       /\ current_line_data_buffer_size_' >= current_line_data_buffer_size_
       /\ current_line_data_' = <<>> => current_line_data_buffer_size_' = 0]_vars

\* C17 as amended: from one read to the next the size recorded for a held
\* buffer never decreases, and a held buffer is released only by a read that
\* returns false.
C17_HeldBufferNeverShrinks ==
    [][/\ (current_line_data_ # <<>> /\ current_line_data_' # <<>>)
              => current_line_data_buffer_size_' >= current_line_data_buffer_size_
       /\ (current_line_data_ # <<>> /\ current_line_data_' = <<>>)
              => (last_read'.n = last_read.n + 1 /\ last_read'.ret = "false")]_vars

\* C17 witness: a held buffer that keeps the capacity of an earlier, longer
\* line while holding a shorter one.
C17_Witness ==
    /\ current_line_data_ # <<>>
    /\ last_read.ret = "true"
    /\ true_reads >= 2
    /\ current_line_data_buffer_size_ > current_line_size_ + 1

\* C18: the line count starts at 0, grows by one on every read that returns
\* true and is changed by nothing else, so it always equals the number of
\* reads that returned true.
C18_CountIsTrueReads ==
    /\ lines_read_ = true_reads
    /\ last_read.n = 0 => lines_read_ = 0

\* C18 witness: two reads returned true, two did not, and an accessor was
\* called afterwards.
C18_Witness ==
    /\ true_reads = 2
    /\ last_read.n = 4
    /\ last_call.op # "none"
    /\ lines_read_ = 2

\* The trimmed text of the line starts with '#'.
HashLine(line) ==
    LET t == trim_ws(tab_is_ws, line) IN Len(t) >= 1 /\ t[1] = HASH

\* The error of the first check a data line fails, the checks taken in the
\* order field count, start integer, end integer, start < end, empty name.
FirstFailure(line) ==
    LET t == trim_ws(tab_is_ws, line)
        f == IF Len(t) = 0 THEN <<>> ELSE SplitFields(TAB, t, <<>>)
    IN  IF Len(f) < 3 THEN runtime_error(MsgFields, "")
        ELSE IF ~parse_int(f[2], LabelStart).ok
             THEN runtime_error(MsgParseInt, LabelStart)
        ELSE IF ~parse_int(f[3], LabelEnd).ok
             THEN runtime_error(MsgParseInt, LabelEnd)
        ELSE IF parse_int(f[2], LabelStart).value >= parse_int(f[3], LabelEnd).value
             THEN runtime_error(MsgBounds, "")
        ELSE IF f[1] = <<>> THEN runtime_error(MsgEmptyName, "")
        ELSE NoException

\* C14: processing a line whose trimmed text starts with '#' changes neither
\* the result sequence nor the open accumulator and raises no error, with or
\* without an open region and whatever follows the '#'; the line count grows
\* by one.
C14_CommentLeavesStateUnchanged ==
    [][(input_lines' # input_lines /\ HashLine(Last(input_lines')))
          => /\ UNCHANGED <<regions, current_region_points, current_region_name>>
             /\ UNCHANGED <<pc, thrown, error, result>>
             /\ lines_read_' = lines_read_ + 1]_vars

\* C14 witness: a comment with a tab and text after the '#' was read while a
\* region was open, and the parse goes on.
C14_Witness ==
    /\ pc = "loop"
    /\ current_region_name # <<>>
    /\ Len(current_region_points) >= 1
    /\ Len(input_lines) >= 2
    /\ Last(input_lines) = <<HASH, TAB, "x", NL>>

C16_BlankLineRejected ==
    (input_lines # <<>> /\ Len(trim_ws(tab_is_ws, Last(input_lines))) = 0)
        => /\ pc = "failed"
           /\ thrown = runtime_error(MsgFields, "")
           /\ error.text = MsgFields
           /\ error.line = <<Len(input_lines)>>

\* C16 witness: a line holding one blank, rejected as the second line.
C16_Witness ==
    /\ pc = "failed"
    /\ Len(input_lines) = 2
    /\ Last(input_lines) = <<SP, NL>>
    /\ error.text = MsgFields
    /\ error.line = <<2>>

\* C19: every entry appended to the result has a non-empty name and at least
\* one point, and no two adjacent entries have the same name.
C19_EntriesWellFormed ==
    /\ \A i \in 1 .. Len(regions) :
           regions[i].name # <<>> /\ Len(regions[i].points) >= 1
    /\ \A i \in 1 .. Len(regions) - 1 : regions[i].name # regions[i + 1].name

\* C19 witness: two entries were appended.
C19_Witness ==
    /\ Len(regions) = 2
    /\ regions[1].name # regions[2].name

\* C20: every point of the accumulator and of the sealed entries is >= 0, for
\* all accepted intervals of the position type, those whose width is not
\* representable included.
C20_PointsNonNegative ==
    /\ \A i \in 1 .. Len(current_region_points) : current_region_points[i] >= 0
    /\ \A i \in 1 .. Len(regions) :
           \A j \in 1 .. Len(regions[i].points) : regions[i].points[j] >= 0

====
